---- MODULE Spec2Model ----
(***************************************************************************)
(* The speech queue of src/app/page.tsx (component Page): the React state  *)
(* queue / isPaused / voices / selectedVoice, the handlers behind the four *)
(* buttons and the voice select, the voice list effect, the reactive       *)
(* dispatch effect, and the callbacks speak() registers on each utterance. *)
(*                                                                         *)
(* A step of the model is one event of the page's single-threaded event    *)
(* loop: the handler (or utterance callback) runs, React commits the state *)
(* it set, and the dispatch effect (lines 132-146) runs on the committed   *)
(* state whenever one of its dependencies changed.                         *)
(*                                                                         *)
(* window.speechSynthesis is modelled by what page.tsx calls and reads:    *)
(* speak / cancel / pause / resume and the flags speaking / paused.  An    *)
(* utterance handed to speak() stays "live" until it ends, fails or is     *)
(* cancelled; speaking is true while a live utterance exists; cancel()     *)
(* leaves the paused flag alone.  The callbacks of a cancelled utterance   *)
(* may still be delivered afterwards (start at most once, then end or      *)
(* error at most once); an utterance that has reported its end or error  *)
(* is forgotten.  The model covers a host that has speechSynthesis  *)
(* (speechRef.current is set, supportsSpeech stays true).                  *)
(*                                                                         *)
(* Numbers of the prosody sliders are in hundredths (rate 0.5 is 50).      *)
(***************************************************************************)
EXTENDS Naturals, Integers, Sequences, FiniteSets

VARIABLES
    queue,      \* useState<QueueItem[]>: the request list, in creation order
    isPaused,   \* useState(false): the scheduler's paused flag
    utts,       \* utterances handed to speechSynthesis.speak whose callbacks
                \* are still to come, in the order they were submitted
    engPaused,  \* speechSynthesis.paused
    nextId,     \* number of ids randomId() has produced so far, plus one
    voices,     \* useState<VoiceOption[]>: the voice list as last read
    selectedVoice,  \* useState(""): id of the chosen voice, "" when none
    last        \* history: the last event and the state it started from

vars == <<queue, isPaused, utts, engPaused, nextId, voices, selectedVoice, last>>

\* ---------------------------------------------------------------- bounds
MaxItems == 3

MaxUtter == 2

MaxSliderItems == 2

MaxErrorItems == 2

MaxVoices == 2

MaxVoiceItems == 1

\* ------------------------------------------------------ program constants
RateMin == 50

RateMax == 200

PitchMin == 0

PitchMax == 200

VolumeMin == 0

VolumeMax == 100

SliderStep == 5

DefaultProsody == 100

\* --------------------------------------------------------------- inputs
\* Characters of the textarea: a blank and a letter.
Texts == { <<>>, <<" ">>, <<"a">>, <<" ", "a", " ">> }

\* useState(1) for rate, pitch and volume, lines 34-36: sliders left alone.
DefaultSliders ==
    [rate |-> DefaultProsody, pitch |-> DefaultProsody, volume |-> DefaultProsody]

\* Positions asked of the three range inputs (rate, pitch, volume), some of
\* them beyond the ends of the sliders and off the step grid.
SliderInputs ==
    { DefaultSliders,
      [rate |-> 500, pitch |-> -100, volume |-> 150],
      [rate |-> 23, pitch |-> 300, volume |-> 48] }

\* SpeechSynthesisVoice objects (name, lang) the engine may list; texts are
\* sequences of characters.
EngineVoices ==
    { [name |-> <<"B">>, lang |-> <<"E", "N", "-", "G", "B">>],
      [name |-> <<"C">>, lang |-> <<"d", "e", "n">>] }

\* What getVoices() may return: up to MaxVoices voices in any order.
VoiceLists == UNION { [1..n -> EngineVoices] : n \in 0..MaxVoices }

\* useState("") of line 33: no voice chosen.
NoVoice == <<>>

\* event.error of a SpeechSynthesisErrorEvent; NoReason when it is absent.
NoReason == "undefined"

ErrorReasons == { "interrupted", NoReason }

\* ------------------------------------------------------------- helpers
Terminal == { "completed", "error", "cancelled" }

QueueItemStatus == { "pending", "speaking" } \cup Terminal

RECURSIVE TrimStart(_)
TrimStart(s) ==
    IF s # <<>> /\ Head(s) = " " THEN TrimStart(Tail(s)) ELSE s

RECURSIVE TrimEnd(_)
TrimEnd(s) ==
    IF s # <<>> /\ s[Len(s)] = " " THEN TrimEnd(SubSeq(s, 1, Len(s) - 1)) ELSE s

Trim(s) == TrimEnd(TrimStart(s))

\* A range input that lacks its min and max: the requested position as it is.
RangeValueUnbounded(min, max, raw) == raw

\* <input type="range" min max step>: the value the control reports for a
\* requested position: snapped to the step grid from min, kept within
\* [min, max].
RangeValue(min, max, raw) ==
    IF raw <= min THEN min
    ELSE IF raw >= max THEN max
    ELSE min + ((raw - min + (SliderStep \div 2)) \div SliderStep) * SliderStep

MapStatus(q, id, st) ==
    [i \in DOMAIN q |-> IF q[i].id = id THEN [q[i] EXCEPT !.status = st] ELSE q[i]]

HasStatus(q, st) == \E i \in DOMAIN q : q[i].status = st

\* findLast in place of find: the last match.
FindLastStatus(q, st) ==
    IF HasStatus(q, st)
    THEN CHOOSE i \in DOMAIN q :
            /\ q[i].status = st
            /\ \A j \in DOMAIN q : q[j].status = st => j <= i
    ELSE 0

\* Array.prototype.find on status: index of the first match, 0 when none.
FindStatus(q, st) ==
    IF HasStatus(q, st)
    THEN CHOOSE i \in DOMAIN q :
            /\ q[i].status = st
            /\ \A j \in DOMAIN q : q[j].status = st => i <= j
    ELSE 0

\* ---------------------------------------------------------- the engine
EngSpeaking(us) == \E u \in DOMAIN us : us[u].live

Cancel(us) == [u \in DOMAIN us |-> [us[u] EXCEPT !.live = FALSE]]

Submit(us, id) == Append(us, [item |-> id, phase |-> "queued", live |-> TRUE])

\* speak(item) without the cancel of line 128.
SpeakNoCancel(us, item) == Submit(us, item.id)

\* speak(item), lines 83-130: cancel, then speak the new utterance.
Speak(us, item) == Submit(Cancel(us), item.id)

\* A dispatch effect that does not look for a speaking request.
DispatchWhileSpeaking(q, paused, us) ==
    IF paused THEN us
    ELSE IF HasStatus(q, "pending") THEN Speak(us, q[FindStatus(q, "pending")])
    ELSE us

\* The dispatch effect, lines 132-146, on the committed state.
DispatchEffect(q, paused, us) ==
    IF HasStatus(q, "speaking") \/ paused THEN us
    ELSE IF HasStatus(q, "pending") THEN Speak(us, q[FindStatus(q, "pending")])
    ELSE us

\* The item the effect hands to speak() on the committed state, 0 when none.
Dispatched(q, paused) ==
    IF HasStatus(q, "speaking") \/ paused \/ ~HasStatus(q, "pending") THEN 0
    ELSE q[FindStatus(q, "pending")].id

Statuses(q) == [i \in DOMAIN q |-> q[i].status]

\* History of one step: the event, what it was given, the id the effect
\* submitted after it (sent, 0 when none) and the highest id submitted
\* before it (high).
Snapshot(op, arg, sent) ==
    [op |-> op, arg |-> arg, sent |-> sent,
     high |-> IF last.sent > last.high THEN last.sent ELSE last.high]

\* ----------------------------------------------------------------- Init
Init ==
    /\ queue = <<>>
    /\ isPaused = FALSE
    /\ utts = <<>>
    /\ engPaused = FALSE
    /\ nextId = 1
    /\ voices = <<>>
    /\ selectedVoice = NoVoice
    /\ last = [op |-> "init", arg |-> <<>>, sent |-> 0, high |-> 0]

\* -------------------------------------------------------------- handlers
\* selectedVoiceInfo?.id ?? "", lines 78-81 and 157.
SelectedVoiceId ==
    IF \E i \in DOMAIN voices : voices[i].id = selectedVoice
    THEN selectedVoice ELSE NoVoice

\* handleAddToQueue, lines 148-165 (handleSpeakNow, 167-169, calls it).
NewItem(text, sl) ==
    [id |-> nextId, text |-> Trim(text),
     rate |-> RangeValue(RateMin, RateMax, sl.rate),
     pitch |-> RangeValue(PitchMin, PitchMax, sl.pitch),
     volume |-> RangeValue(VolumeMin, VolumeMax, sl.volume),
     voiceId |-> SelectedVoiceId,
     status |-> "pending", error |-> NoReason]

\* handleAddToQueue without its check of the trimmed text.
AddUnchecked(text, sl) ==
    /\ nextId <= MaxItems
    /\ queue' = Append(queue, NewItem(text, sl))
    /\ nextId' = nextId + 1
    /\ utts' = DispatchEffect(queue', isPaused, utts)
    /\ Len(utts') <= MaxUtter
    /\ UNCHANGED <<isPaused, engPaused, voices, selectedVoice>>
    /\ last' = Snapshot("enqueue", [text |-> text, sliders |-> sl],
                        Dispatched(queue', isPaused))

HandleAddToQueue(text, sl) ==
    IF Trim(text) = <<>>
    THEN /\ UNCHANGED <<queue, isPaused, utts, engPaused, nextId, voices, selectedVoice>>
         /\ last' = Snapshot("enqueue", [text |-> text, sliders |-> sl], 0)
    ELSE /\ nextId <= MaxItems
         /\ queue' = Append(queue, NewItem(text, sl))
         /\ nextId' = nextId + 1
         /\ utts' = DispatchEffect(queue', isPaused, utts)
         /\ Len(utts') <= MaxUtter
         /\ UNCHANGED <<isPaused, engPaused, voices, selectedVoice>>
         /\ last' = Snapshot("enqueue", [text |-> text, sliders |-> sl],
                             Dispatched(queue', isPaused))

\* A stop that cancels every request not yet finished.
StopQueueAll(q) ==
    [i \in DOMAIN q |->
        IF q[i].status \in {"speaking", "pending"}
        THEN [q[i] EXCEPT !.status = "cancelled"] ELSE q[i]]

\* A stop that, with nothing speaking, cancels the request waiting to start.
StopQueueSkip(q) ==
    [i \in DOMAIN q |->
        IF \/ q[i].status = "speaking"
           \/ (~HasStatus(q, "speaking") /\ i = FindStatus(q, "pending"))
        THEN [q[i] EXCEPT !.status = "cancelled"] ELSE q[i]]

\* handleStop, lines 171-183.
StopQueue(q) ==
    [i \in DOMAIN q |->
        IF q[i].status = "speaking" THEN [q[i] EXCEPT !.status = "cancelled"] ELSE q[i]]

HandleStop ==
    /\ queue' = StopQueue(queue)
    /\ isPaused' = FALSE
    /\ utts' = DispatchEffect(queue', FALSE, Cancel(utts))
    /\ Len(utts') <= MaxUtter
    /\ UNCHANGED <<engPaused, nextId, voices, selectedVoice>>
    /\ last' = Snapshot("stop",
                        [cancelled |-> Cardinality({i \in DOMAIN queue :
                                                      queue[i].status = "speaking"}),
                         again |-> last.op = "stop"],
                        Dispatched(queue', FALSE))

\* A toggle on the scheduler's own flag instead of the engine's.
PauseResumeLocal ==
    IF ~isPaused
    THEN /\ engPaused' = TRUE
         /\ isPaused' = TRUE
         /\ UNCHANGED <<queue, utts, nextId, voices, selectedVoice>>
         /\ last' = Snapshot("pauseResume", "pause", 0)
    ELSE /\ engPaused' = FALSE
         /\ isPaused' = FALSE
         /\ utts' = DispatchEffect(queue, FALSE, utts)
         /\ Len(utts') <= MaxUtter
         /\ UNCHANGED <<queue, nextId, voices, selectedVoice>>
         /\ last' = Snapshot("pauseResume", "resume", Dispatched(queue, FALSE))

\* handlePauseResume, lines 185-197: decided by the engine's live flags.
\* The effect runs again only when setIsPaused changed isPaused.
HandlePauseResume ==
    IF EngSpeaking(utts) /\ ~engPaused
    THEN /\ engPaused' = TRUE
         /\ isPaused' = TRUE
         /\ UNCHANGED <<queue, utts, nextId, voices, selectedVoice>>
         /\ last' = Snapshot("pauseResume", "pause", 0)
    ELSE IF engPaused
    THEN /\ engPaused' = FALSE
         /\ isPaused' = FALSE
         /\ utts' = IF isPaused THEN DispatchEffect(queue, FALSE, utts) ELSE utts
         /\ Len(utts') <= MaxUtter
         /\ UNCHANGED <<queue, nextId, voices, selectedVoice>>
         /\ last' = Snapshot("pauseResume", "resume",
                             IF isPaused THEN Dispatched(queue, FALSE) ELSE 0)
    ELSE /\ UNCHANGED <<queue, isPaused, utts, engPaused, nextId, voices, selectedVoice>>
         /\ last' = Snapshot("pauseResume", "none", 0)

\* A filter that keeps the pending requests only.
KeepPending(q) == SelectSeq(q, LAMBDA item : item.status = "pending")

\* handleClearCompleted, lines 199-201.
KeepActive(q) ==
    SelectSeq(q, LAMBDA item : item.status = "pending" \/ item.status = "speaking")

HandleClearCompleted ==
    /\ queue' = KeepActive(queue)
    /\ utts' = DispatchEffect(queue', isPaused, utts)
    /\ Len(utts') <= MaxUtter
    /\ UNCHANGED <<isPaused, engPaused, nextId, voices, selectedVoice>>
    /\ last' = Snapshot("clear", Statuses(queue), Dispatched(queue', isPaused))

\* String.prototype.toLowerCase on the letters the voices use.
LowerChar(c) ==
    CASE c = "E" -> "e"
      [] c = "N" -> "n"
      [] c = "G" -> "g"
      [] c = "B" -> "b"
      [] c = "C" -> "c"
      [] OTHER -> c

\* A comparison of the locale as it is written.
KeepCase(s) == s

ToLowerCase(s) == [i \in DOMAIN s |-> LowerChar(s[i])]

StartsWith(s, prefix) ==
    Len(s) >= Len(prefix) /\ SubSeq(s, 1, Len(prefix)) = prefix

\* availableVoices.map(...), lines 54-59: the id is name + lang.
Mapped(available) ==
    [i \in DOMAIN available |->
        [id |-> available[i].name \o available[i].lang,
         name |-> available[i].name,
         lang |-> available[i].lang]]

IsEnglish(voice) == StartsWith(ToLowerCase(voice.lang), <<"e", "n">>)

\* mapped.find(... startsWith("en")) ?? mapped[0], lines 62-63.
Preferred(mapped) ==
    IF \E i \in DOMAIN mapped : IsEnglish(mapped[i])
    THEN mapped[CHOOSE i \in DOMAIN mapped :
                   /\ IsEnglish(mapped[i])
                   /\ \A j \in 1..(i - 1) : ~IsEnglish(mapped[j])]
    ELSE mapped[1]

\* mapVoices, lines 52-66, with the list getVoices() returns.  setVoices
\* gives speak a new identity (line 130), so the dispatch effect runs again
\* on the unchanged queue.  When the selection changes, the effect of lines
\* 44-76 runs again too and calls mapVoices once more: a second setVoices,
\* a second run of the dispatch effect.
MapVoices(available) ==
    LET once == DispatchEffect(queue, isPaused, utts)
    IN  /\ voices' = Mapped(available)
        /\ selectedVoice' = IF selectedVoice = NoVoice /\ Len(available) > 0
                            THEN Preferred(Mapped(available)).id
                            ELSE selectedVoice
        /\ utts' = IF selectedVoice' # selectedVoice
                   THEN DispatchEffect(queue, isPaused, once)
                   ELSE once
        /\ Len(utts') <= MaxUtter
        /\ UNCHANGED <<queue, isPaused, engPaused, nextId>>
        /\ last' = Snapshot("voices", available, Dispatched(queue, isPaused))

\* onChange of the voice select, lines 232-241: one of the listed voices.
\* The effect of lines 44-76 runs again and reads the same list.
SelectVoice(id) ==
    /\ \E i \in DOMAIN voices : voices[i].id = id
    /\ id # selectedVoice
    /\ selectedVoice' = id
    /\ voices' = voices
    /\ utts' = DispatchEffect(queue, isPaused, utts)
    /\ Len(utts') <= MaxUtter
    /\ UNCHANGED <<queue, isPaused, engPaused, nextId>>
    /\ last' = Snapshot("select", id, Dispatched(queue, isPaused))

\* ----------------------------------------------------- utterance callbacks
\* The engine may begin a live utterance unless it is paused; the start of a
\* cancelled utterance may still be on its way.
CanStart(u) == utts[u].phase = "queued" /\ (utts[u].live => ~engPaused)

\* A live utterance ends while it is playing; a cancelled one that had
\* started reports its end later.
CanEnd(u) == utts[u].phase = "started" /\ (utts[u].live => ~engPaused)

\* utterance.onstart, lines 98-102.
OnStartQueue(q, id) == MapStatus(q, id, "speaking")

OnStart(u) ==
    /\ CanStart(u)
    /\ queue' = OnStartQueue(queue, utts[u].item)
    /\ utts' = DispatchEffect(queue', isPaused, [utts EXCEPT ![u].phase = "started"])
    /\ Len(utts') <= MaxUtter
    /\ UNCHANGED <<isPaused, engPaused, nextId, voices, selectedVoice>>
    /\ last' = Snapshot("onstart", [item |-> utts[u].item, live |-> utts[u].live],
                        Dispatched(queue', isPaused))

\* The engine drops an utterance that has reported its end or error.
Finished(us, u) == [i \in 1..(Len(us) - 1) |-> IF i < u THEN us[i] ELSE us[i + 1]]

\* An end callback that does not look at the engine.
OnEndCompleted(speaking) == "completed"

\* utterance.onend, lines 104-114: speechRef.current.speaking is read when
\* the callback's update is applied.
OnEndStatus(speaking) == IF speaking THEN "cancelled" ELSE "completed"

OnEnd(u) ==
    /\ CanEnd(u)
    /\ queue' = MapStatus(queue, utts[u].item, OnEndStatus(EngSpeaking(Finished(utts, u))))
    /\ isPaused' = FALSE
    /\ utts' = DispatchEffect(queue', FALSE, Finished(utts, u))
    /\ Len(utts') <= MaxUtter
    /\ UNCHANGED <<engPaused, nextId, voices, selectedVoice>>
    /\ last' = Snapshot("onend",
                        [item |-> utts[u].item, live |-> utts[u].live,
                         speaking |-> EngSpeaking(Finished(utts, u))],
                        Dispatched(queue', FALSE))

\* An error callback that stores event.error as it is.
ErrorTextRaw(reason) == reason

\* utterance.onerror, lines 116-126.
ErrorText(reason) == IF reason = NoReason THEN "Unknown error" ELSE reason

OnErrorQueue(q, id, reason) ==
    [i \in DOMAIN q |->
        IF q[i].id = id
        THEN [q[i] EXCEPT !.status = "error", !.error = ErrorText(reason)]
        ELSE q[i]]

\* An error callback that leaves the paused flag as it is.
OnErrorKeepsPaused(u, reason) ==
    /\ queue' = OnErrorQueue(queue, utts[u].item, reason)
    /\ utts' = DispatchEffect(queue', isPaused, Finished(utts, u))
    /\ Len(utts') <= MaxUtter
    /\ UNCHANGED <<isPaused, engPaused, nextId, voices, selectedVoice>>
    /\ last' = Snapshot("onerror",
                        [item |-> utts[u].item, live |-> utts[u].live, reason |-> reason],
                        Dispatched(queue', isPaused))

OnError(u, reason) ==
    /\ queue' = OnErrorQueue(queue, utts[u].item, reason)
    /\ isPaused' = FALSE
    /\ utts' = DispatchEffect(queue', FALSE, Finished(utts, u))
    /\ Len(utts') <= MaxUtter
    /\ UNCHANGED <<engPaused, nextId, voices, selectedVoice>>
    /\ last' = Snapshot("onerror",
                        [item |-> utts[u].item, live |-> utts[u].live, reason |-> reason],
                        Dispatched(queue', FALSE))

\* ------------------------------------------------------------ the buttons
\* The disabled attributes of the four buttons, lines 285-304.
SpeakEnabled(text) == Trim(text) # <<>>

\* A Pause / Resume button that is never disabled.
PauseAlwaysEnabled == TRUE

PauseEnabled == HasStatus(queue, "speaking")

StopEnabled == Len(queue) # 0

ClearEnabled == HasStatus(queue, "completed") \/ HasStatus(queue, "error")

\* A voice list notification of an engine that lists no voice.
VoicesStillEmpty == MapVoices(<<>>)

ClickSpeak == \E t \in Texts : SpeakEnabled(t) /\ HandleAddToQueue(t, DefaultSliders)

\* Move the sliders, then click.
SlideAndSpeak ==
    \E t \in Texts, sl \in SliderInputs :
        nextId <= MaxSliderItems /\ SpeakEnabled(t) /\ HandleAddToQueue(t, sl)

ClickPause == PauseEnabled /\ HandlePauseResume

ClickStop == StopEnabled /\ HandleStop

ClickClear == ClearEnabled /\ HandleClearCompleted

EngineStart == \E u \in DOMAIN utts : OnStart(u)

EngineEnd == \E u \in DOMAIN utts : OnEnd(u)

EngineError == \E u \in DOMAIN utts : OnError(u, NoReason)

\* The page as a user and the engine drive it.
Next ==
    \/ ClickSpeak
    \/ ClickPause
    \/ ClickStop
    \/ ClickClear
    \/ VoicesStillEmpty
    \/ EngineStart
    \/ EngineEnd
    \/ EngineError

Spec == Init /\ [][Next]_vars

\* The handlers as operations, called whatever the buttons show.
CallAddToQueue == \E t \in Texts : HandleAddToQueue(t, DefaultSliders)

NextOps ==
    \/ CallAddToQueue
    \/ HandlePauseResume
    \/ HandleStop
    \/ HandleClearCompleted
    \/ VoicesStillEmpty
    \/ EngineStart
    \/ EngineEnd
    \/ EngineError

SpecOps == Init /\ [][NextOps]_vars

\* The page with the sliders in use.
NextSliders ==
    \/ SlideAndSpeak
    \/ ClickPause
    \/ ClickStop
    \/ ClickClear
    \/ VoicesStillEmpty
    \/ EngineStart
    \/ EngineEnd
    \/ EngineError

SpecSliders == Init /\ [][NextSliders]_vars

\* The page with an engine whose errors come with or without a reason.
SpeakFew ==
    \E t \in Texts :
        nextId <= MaxErrorItems /\ SpeakEnabled(t) /\ HandleAddToQueue(t, DefaultSliders)

EngineErrorReason == \E u \in DOMAIN utts, r \in ErrorReasons : OnError(u, r)

NextErrors ==
    \/ SpeakFew
    \/ ClickPause
    \/ ClickStop
    \/ ClickClear
    \/ VoicesStillEmpty
    \/ EngineStart
    \/ EngineEnd
    \/ EngineErrorReason

SpecErrors == Init /\ [][NextErrors]_vars

\* The page with voices: the engine's list changes, the user picks a voice.
VoicesChanged == \E available \in VoiceLists : MapVoices(available)

ChooseVoice == \E i \in DOMAIN voices : SelectVoice(voices[i].id)

SpeakWithVoice ==
    \E t \in Texts :
        nextId <= MaxVoiceItems /\ SpeakEnabled(t) /\ HandleAddToQueue(t, DefaultSliders)

NextVoices ==
    \/ VoicesChanged
    \/ ChooseVoice
    \/ SpeakWithVoice
    \/ EngineStart
    \/ EngineEnd

SpecVoices == Init /\ [][NextVoices]_vars

\* The page with an engine that plays what it is given and a user who does
\* not leave the engine paused: the engine starts the utterance it holds
\* whenever it is not paused, every utterance that has started reports its
\* end, and the Pause / Resume button is pressed again while the engine is
\* paused and the button is enabled.  Errors and the start callback of a
\* cancelled utterance may come but are never owed.
LiveStart == \E u \in DOMAIN utts : utts[u].live /\ OnStart(u)

Resume == engPaused /\ ClickPause

SpecLive ==
    /\ Spec
    /\ SF_vars(LiveStart)
    /\ SF_vars(EngineEnd)
    /\ SF_vars(Resume)

\* ------------------------------------------------------------ properties
\* The shape of the state: the types of lines 12-23 and 37-38.
TypeOK ==
    /\ isPaused \in BOOLEAN
    /\ engPaused \in BOOLEAN
    /\ nextId \in 1..(MaxItems + 1)
    /\ \A i \in DOMAIN queue :
          /\ queue[i].id \in 1..(nextId - 1)
          /\ queue[i].status \in QueueItemStatus
          /\ queue[i].text # <<>>
          /\ queue[i].error \in {NoReason} \cup {ErrorText(r) : r \in ErrorReasons}
    /\ \A i, j \in DOMAIN queue : i < j => queue[i].id < queue[j].id
    /\ Len(utts) <= MaxUtter
    /\ Cardinality({u \in DOMAIN utts : utts[u].live}) <= 1
    /\ \A i \in DOMAIN voices : voices[i].id = voices[i].name \o voices[i].lang
    /\ selectedVoice \in {NoVoice} \cup {v.name \o v.lang : v \in EngineVoices}

Speaking(q) == { i \in DOMAIN q : q[i].status = "speaking" }

Rank(st) == IF st = "pending" THEN 0 ELSE IF st = "speaking" THEN 1 ELSE 2

IsPending(id) == \E i \in DOMAIN queue : queue[i].id = id /\ queue[i].status = "pending"

\* The live utterance of the engine, as a set (empty or one element).
Live(us) == { u \in DOMAIN us : us[u].live }

\* C1: in every reachable state at most one request of the queue has status
\* speaking.
AtMostOneSpeaking == Cardinality(Speaking(queue)) <= 1

\* C2: in every step every request keeps its status or moves forward along
\* pending -> speaking -> {completed, error, cancelled}; a request that is
\* completed, error or cancelled keeps that status.
StatusOnlyForward ==
    [][\A i \in DOMAIN queue, j \in DOMAIN queue' :
          queue[i].id = queue'[j].id =>
             /\ Rank(queue[i].status) <= Rank(queue'[j].status)
             /\ queue[i].status \in Terminal => queue'[j].status = queue[i].status]_vars

\* C3: every request handed to the engine is, at that moment, the earliest
\* pending request of the queue, and no request is submitted after a request
\* enqueued later than it: A, B, C are submitted in the order A, B, C.
FifoDispatch ==
    last.sent # 0 =>
        /\ last.sent >= last.high
        /\ \E i \in DOMAIN queue :
              /\ queue[i].id = last.sent
              /\ queue[i].status = "pending"
              /\ \A j \in 1..(i - 1) : queue[j].status # "pending"

FifoWitness ==
    /\ Len(queue) = 3
    /\ last.sent = queue[3].id
    /\ last.high = queue[2].id
    /\ queue[1].status = "completed"
    /\ queue[2].status = "completed"

\* C4: with two requests queued, the first speaking and the second pending,
\* stop() cancels the engine's utterance, sets the first request to
\* cancelled, clears paused and leaves the second pending; the effect then
\* submits the second request.
StopThenDispatch ==
    [][(/\ last'.op = "stop"
        /\ Len(queue) = 2
        /\ queue[1].status = "speaking"
        /\ queue[2].status = "pending")
       => /\ queue' = [queue EXCEPT ![1].status = "cancelled"]
          /\ isPaused' = FALSE
          /\ Len(utts') = Len(utts) + 1
          /\ \A u \in DOMAIN utts : utts'[u] = [utts[u] EXCEPT !.live = FALSE]
          /\ utts'[Len(utts')] = [item |-> queue[2].id, phase |-> "queued", live |-> TRUE]
          /\ last'.sent = queue[2].id]_vars

StopWitness ==
    /\ last.op = "stop"
    /\ last.arg.cancelled = 1
    /\ Statuses(queue) = <<"cancelled", "pending">>
    /\ last.sent = queue[2].id
    /\ \E u \in Live(utts) : utts[u].item = queue[2].id

\* C5: stop() called right after stop() leaves the request list and the
\* paused flag as the first call left them; and whenever the queue is empty
\* stop() would change neither (the list has nothing to cancel and paused is
\* already false).
StopIdempotent ==
    /\ [][(last.op = "stop" /\ last'.op = "stop")
           => (queue' = queue /\ isPaused' = isPaused)]_vars
    /\ [](queue = <<>> => (StopQueue(queue) = queue /\ isPaused = FALSE))

StopTwiceWitness ==
    /\ last.op = "stop"
    /\ last.arg.again
    /\ last.arg.cancelled = 0
    /\ Len(queue) = 2
    /\ HasStatus(queue, "cancelled")

EnqueueContract ==
    [][last'.op = "enqueue" =>
          IF \A k \in DOMAIN last'.arg.text : last'.arg.text[k] = " "
          THEN /\ queue' = queue
               /\ isPaused' = isPaused
               /\ utts' = utts
               /\ last'.sent = 0
          ELSE /\ Len(queue') = Len(queue) + 1
               /\ SubSeq(queue', 1, Len(queue)) = queue
               /\ queue'[Len(queue')].status = "pending"
               /\ \A i \in DOMAIN queue : queue[i].id # queue'[Len(queue')].id
               /\ isPaused' = isPaused]_vars

BlankEnqueueWitness ==
    /\ last.op = "enqueue"
    /\ last.arg.text = <<" ">>
    /\ HasStatus(queue, "pending")
    /\ ~HasStatus(queue, "speaking")
    /\ ~isPaused

\* C8: clearCompleted() removes exactly the completed, cancelled and error
\* requests and keeps every pending or speaking request, unchanged and in
\* the same relative order.
ClearKeepsActive ==
    [][last'.op = "clear" =>
          \E f \in [DOMAIN queue' -> DOMAIN queue] :
             /\ \A j, k \in DOMAIN queue' : j < k => f[j] < f[k]
             /\ \A j \in DOMAIN queue' : queue'[j] = queue[f[j]]
             /\ \A i \in DOMAIN queue :
                   (\E j \in DOMAIN queue' : f[j] = i)
                      <=> queue[i].status \in {"pending", "speaking"}]_vars

ClearWitness ==
    /\ last.op = "clear"
    /\ last.arg = <<"completed", "speaking", "pending">>
    /\ Statuses(queue) = <<"speaking", "pending">>

\* C9: pauseOrResume() follows the engine's flags: engine speaking and not
\* paused: the engine is paused and paused becomes true; engine paused: the
\* engine is resumed and paused becomes false; otherwise nothing changes.
\* The request list is never changed.
PauseResumeByEngine ==
    [][last'.op = "pauseResume" =>
          /\ queue' = queue
          /\ IF EngSpeaking(utts) /\ ~engPaused
             THEN engPaused' = TRUE /\ isPaused' = TRUE
             ELSE IF engPaused
             THEN engPaused' = FALSE /\ isPaused' = FALSE
             ELSE /\ engPaused' = engPaused
                  /\ isPaused' = isPaused
                  /\ utts' = utts]_vars

ResumeWitness ==
    /\ last.op = "pauseResume"
    /\ last.arg = "resume"
    /\ HasStatus(queue, "speaking")
    /\ ~isPaused
    /\ ~engPaused

\* C10: the start callback of a request's utterance sets the request to
\* speaking; its end callback sets it to cancelled if the engine is speaking
\* when the callback fires and to completed otherwise, and clears paused.
Lifecycle ==
    [][/\ last'.op = "onstart" =>
             \A i \in DOMAIN queue :
                queue[i].id = last'.arg.item =>
                   queue'[i] = [queue[i] EXCEPT !.status = "speaking"]
       /\ last'.op = "onend" =>
             /\ isPaused' = FALSE
             /\ \A i \in DOMAIN queue :
                   queue[i].id = last'.arg.item =>
                      queue'[i].status =
                         IF \E u \in DOMAIN utts : utts[u].live /\ ~last'.arg.live
                         THEN "cancelled" ELSE "completed"]_vars

LifecycleWitness ==
    /\ last.op = "onend"
    /\ last.arg.live
    /\ ~last.arg.speaking
    /\ Statuses(queue) = <<"completed">>
    /\ utts = <<>>

\* C11: an end or error callback that arrives for an utterance after the
\* utterance was cancelled (by stop() or by the cancel of a later dispatch)
\* never leaves its request in status completed, whether or not another
\* utterance is active on the engine.
StaleCallbackNeverCompletes ==
    (last.op \in {"onend", "onerror"} /\ ~last.arg.live)
       => \A i \in DOMAIN queue :
             queue[i].id = last.arg.item => queue[i].status # "completed"

\* C12: the error callback of request R's utterance sets R to status error,
\* stores the engine's reason ("Unknown error" when the event has none),
\* clears paused, and leaves every other request as it was.
ErrorContained ==
    [][last'.op = "onerror" =>
          /\ isPaused' = FALSE
          /\ Len(queue') = Len(queue)
          /\ \A i \in DOMAIN queue :
                IF queue[i].id = last'.arg.item
                THEN /\ queue'[i].status = "error"
                     /\ queue'[i].error = IF last'.arg.reason = NoReason
                                          THEN "Unknown error"
                                          ELSE last'.arg.reason
                     /\ [queue'[i] EXCEPT !.status = queue[i].status,
                                          !.error = queue[i].error] = queue[i]
                ELSE queue'[i] = queue[i]]_vars

ErrorWitness ==
    /\ last.op = "onerror"
    /\ last.arg.reason = NoReason
    /\ Len(queue) = 2
    /\ queue[1].status = "error"
    /\ queue[1].error = "interrupted"
    /\ queue[2].status = "error"
    /\ queue[2].error = "Unknown error"
    /\ ~isPaused

\* C13: a playback error does not halt the scheduler: whenever an error
\* callback has been handled while a request is pending, the earliest
\* pending request is eventually handed to the engine (or has left pending
\* through the callbacks of an utterance it was given before).
ErrorDoesNotHalt ==
    \A id \in 1..MaxItems :
        (/\ last.op = "onerror"
         /\ IsPending(id)
         /\ queue[FindStatus(queue, "pending")].id = id)
           ~> (last.sent = id \/ ~IsPending(id))

ErrorThenDispatchWitness ==
    /\ last.op = "onerror"
    /\ last.sent = 2
    /\ Statuses(queue) = <<"error", "pending">>
    /\ \E u \in Live(utts) : utts[u].item = 2

\* C14: an utterance is submitted only on a committed state in which no
\* request is speaking and paused is false, and it is the utterance of the
\* earliest pending request; while a request is speaking or paused is true
\* no step submits anything.
DispatchOnlyWhenAllowed ==
    [][LET ended == IF last'.op \in {"onend", "onerror"} THEN 1 ELSE 0
           submitted == Len(utts') = Len(utts) - ended + 1
       IN  /\ Len(utts') \in {Len(utts) - ended, Len(utts) - ended + 1}
           /\ submitted <=> last'.sent # 0
           /\ submitted =>
                 /\ ~HasStatus(queue', "speaking")
                 /\ ~isPaused'
                 /\ \E i \in DOMAIN queue' :
                       /\ queue'[i].status = "pending"
                       /\ \A j \in 1..(i - 1) : queue'[j].status # "pending"
                       /\ utts'[Len(utts')] =
                             [item |-> queue'[i].id, phase |-> "queued", live |-> TRUE]
           /\ (HasStatus(queue', "speaking") \/ isPaused') => ~submitted]_vars

BlockedDispatchWitness ==
    /\ last.op = "enqueue"
    /\ last.arg.text = <<"a">>
    /\ last.sent = 0
    /\ Statuses(queue) = <<"speaking", "pending", "pending">>
    /\ isPaused

\* C15: in every reachable state paused is true exactly when the engine
\* reports that the utterance it holds is paused.
PausedMatchesEngine == isPaused <=> (engPaused /\ EngSpeaking(utts))

SubmittedOnce == last.sent # 0 => last.sent > last.high

\* C19: in every reachable state paused is true only if some request has
\* status speaking, so paused never blocks the dispatch effect while no
\* request is speaking.
PausedOnlyWhileSpeaking == isPaused => HasStatus(queue, "speaking")

PausedWitness ==
    /\ isPaused
    /\ last.op = "pauseResume"
    /\ last.arg = "pause"
    /\ Statuses(queue) = <<"completed", "speaking", "pending">>

\* C20: with an engine that answers and a user who does not stay paused,
\* every request in the queue that is pending or speaking eventually has
\* status completed, error or cancelled.
EveryRequestSettles ==
    \A id \in 1..MaxItems :
        (\E i \in DOMAIN queue : queue[i].id = id /\ queue[i].status \notin Terminal)
           ~> (\E i \in DOMAIN queue : queue[i].id = id /\ queue[i].status \in Terminal)

\* C17: every voice list notification replaces the whole voice list by the
\* engine's list; with no voice selected it selects the first voice whose
\* locale starts with "en" in any letter case, else the first voice, else
\* none; with a voice selected the selection stays, even when that voice is
\* not in the new list.
VoiceRefresh ==
    [][last'.op = "voices" =>
          LET list == last'.arg
              En(k) == /\ Len(list[k].lang) >= 2
                       /\ list[k].lang[1] \in {"e", "E"}
                       /\ list[k].lang[2] \in {"n", "N"}
          IN  /\ Len(voices') = Len(list)
              /\ \A k \in DOMAIN list :
                    /\ voices'[k].name = list[k].name
                    /\ voices'[k].lang = list[k].lang
              /\ IF selectedVoice # NoVoice THEN selectedVoice' = selectedVoice
                 ELSE IF list = <<>> THEN selectedVoice' = NoVoice
                 ELSE \E k \in DOMAIN list :
                         /\ selectedVoice' = voices'[k].id
                         /\ IF \E j \in DOMAIN list : En(j)
                            THEN En(k) /\ \A j \in 1..(k - 1) : ~En(j)
                            ELSE k = 1]_vars

StaleSelectionWitness ==
    /\ last.op = "voices"
    /\ selectedVoice = <<"B", "E", "N", "-", "G", "B">>
    /\ Len(voices) = 2
    /\ \A i \in DOMAIN voices : voices[i].id # selectedVoice

====
